---- MODULE Spec2Model ----
(***************************************************************************)
(* A model of the news aggregator's core (src/bot_core.py): the corpus     *)
(* operations merge_news and cleanup_and_sort_news, the TelegraphPublisher *)
(* credential pool and its publish loop, and NewsML.predict.               *)
(*                                                                         *)
(* Each component has its own specification (SpecCorpus, SpecRetention,    *)
(* SpecPublisher, SpecModel); the variables of the other components keep   *)
(* their initial value there.                                              *)
(***************************************************************************)
EXTENDS Integers, Sequences, FiniteSets, Bags, TLC

VARIABLES
    \* ---- corpus (data/news.json as loaded) and the last corpus call ----
    corpus,        \* the list of article records the run works on
    op,            \* last corpus operation: "load", "merge", "cleanup", "cleanup_raised", "tick"
    old_news,      \* first argument of the last merge_news / cleanup_and_sort_news call
    new_news,      \* second argument of the last merge_news call
    count_new,     \* count returned by the last merge_news call
    now,           \* datetime.now(), as a clock reading <<date, hour>>
    \* ---- TelegraphPublisher and the extractor calling it ----
    tokenFile,     \* content of data/telegraph_token.json
    tokens,        \* self.tokens (the local list while the constructor runs)
    loaded,        \* the tokens the constructor read from the file
    createFailed,  \* whether a create_account call of the constructor failed
    current_token_index,
    telegraph,     \* self.telegraph: the token the client was built with, or NoClient
    pc,            \* where the publisher is: "new", "provision", "save_open", "save_dump",
                   \* "ctor_raised", "ready", "try", "returned", "Raised"
    attempts,      \* publish: rate-limit responses seen in the running call
    max_retries,   \* publish: len(self.tokens) at the start of the call
    used,          \* publish: the tokens create_page was called with, in call order
    start,         \* publish: current_token_index at the start of the call
    terminal,      \* publish: how the last call ended: "Done", "Exhausted", "Aborted"
    ret,           \* publish: the value returned
    items,         \* _scrape_portal: telegraph_url of the articles kept so far
    \* ---- NewsML ----
    modelFile,     \* data/model.pkl: "absent", "valid" or "corrupt"
    is_trained,    \* self.is_trained
    mpc,           \* "new", "ready", or "raised" once a call let an exception out
    lastCall,      \* "none", "train" or "predict"
    article,       \* the article of the last predict call
    raw,           \* what self.pipeline.predict did in the last predict call
    result         \* what the last predict call returned, or that it raised

corpusVars == <<corpus, op, old_news, new_news, count_new, now>>

publisherVars == <<tokenFile, tokens, loaded, createFailed, current_token_index, telegraph,
                   pc, attempts, max_retries, used, start, terminal, ret, items>>

modelVars == <<modelFile, is_trained, mpc, lastCall, article, raw, result>>

vars == <<corpusVars, publisherVars, modelVars>>

(***************************************************************************)
(* Bounds of the model.                                                    *)
(***************************************************************************)
MaxLen == 3        \* longest list handed to cleanup_and_sort_news in SpecRetention
MaxInit == 2       \* longest initial corpus of SpecCorpus
MaxPerPortal == 1  \* most articles one portal yields in a run (the code stops at 3)
MaxCorpus == 3     \* merges are taken while the corpus stays within this length
NUrls == 2         \* number of distinct article URLs
MaxStored == 6     \* most tokens a stored token file holds
MaxCalls == 2      \* publish calls (articles) of one run
MaxTrain == 2      \* longest article list handed to NewsML.train
RawSpread == 2     \* how far outside 1..10 the regression's output is taken

(***************************************************************************)
(* Program constants.                                                      *)
(***************************************************************************)
HOURS == 72        \* default horizon of cleanup_and_sort_news
N_MIN == 5         \* tokens the publisher's constructor provisions up to
NEUTRAL == 5       \* NewsML.predict's default score, 5.0
SCORE_MIN == 1     \* NewsML.predict clamps to 1.0 ..
SCORE_MAX == 10    \* .. 10.0

None == "None"     \* Python's None; a rating is written as its JSON text, "8"

NoClient == <<>>   \* self.telegraph = None

(***************************************************************************)
(* The components a specification does not exercise stay as constructed.   *)
(***************************************************************************)
CorpusIdle ==
    /\ corpus = <<>>
    /\ op = "load"
    /\ old_news = <<>>
    /\ new_news = <<>>
    /\ count_new = 0
    /\ now = <<4, 0>>

PublisherIdle ==
    /\ tokenFile = [kind |-> "absent", tokens |-> <<>>]
    /\ tokens = <<>>
    /\ loaded = <<>>
    /\ createFailed = FALSE
    /\ current_token_index = 0
    /\ telegraph = NoClient
    /\ pc = "new"
    /\ attempts = 0
    /\ max_retries = 0
    /\ used = <<>>
    /\ start = 0
    /\ terminal = "-"
    /\ ret = None
    /\ items = <<>>

\* a float: a number or NaN
Num(v) == [nan |-> FALSE, v |-> v]
NaN == [nan |-> TRUE, v |-> 0]

NoArticle == [has_title |-> FALSE, has_source |-> FALSE]
NoRaw == [kind |-> "none", x |-> Num(0)]
NoResult == [raised |-> FALSE, x |-> Num(0)]

ModelIdle ==
    /\ modelFile = "absent"
    /\ is_trained = FALSE
    /\ mpc = "new"
    /\ lastCall = "none"
    /\ article = NoArticle
    /\ raw = NoRaw
    /\ result = NoResult

(***************************************************************************)
(* Strings.  A scraped_at string is modelled as the tuple of its fields as *)
(* Python's string comparison meets them, left to right: the zero-padded   *)
(* date group, the separator character (its code), the zero-padded time    *)
(* group and, for an offset-carrying string, the sign character of the     *)
(* offset.  Zero-padded groups of equal width compare as their numbers do, *)
(* so a group is one element of the tuple.  A letter compares above every  *)
(* digit, so the malformed text starts with a letter's code.               *)
(***************************************************************************)
\* Python's str.__lt__: the first differing position decides; a proper prefix is smaller.
StrLess(a, b) ==
    \E k \in 1..Len(b) :
        /\ \A i \in 1..(k - 1) : i <= Len(a) /\ a[i] = b[i]
        /\ \/ Len(a) = k - 1
           \/ Len(a) >= k /\ a[k] < b[k]

\* The value stored under 'scraped_at': a string, None, or no such key.
Str(text) == [kind |-> "str", text |-> text]
NoneValue == [kind |-> "none", text |-> <<>>]
Missing == [kind |-> "missing", text |-> <<>>]

\* A clock reading <<date, hour>> in hours.
Hours(c) == c[1] * 24 + c[2]

\* datetime.isoformat(): date, 'T' (code 84), time.
isoformat(c) == Str(<<c[1], 84, c[2]>>)

\* datetime.fromisoformat on the value read by item['scraped_at'].
\*   "KeyError"   the key is absent (raised by the subscript, before the call)
\*   "TypeError"  the argument is not a str
\*   "ValueError" the text is not an ISO timestamp
\*   "aware"      an ISO timestamp with a UTC offset (ordering it against the
\*                naive cutoff raises TypeError)
\*   "naive"      an ISO timestamp; any single character separates date and time
fromisoformat(v) ==
    CASE v.kind = "missing" -> [res |-> "KeyError", t |-> 0]
      [] v.kind = "none" -> [res |-> "TypeError", t |-> 0]
      [] v.kind = "str" /\ Len(v.text) = 3 /\ v.text[1] \in 0..9 /\ v.text[3] \in 0..23
            -> [res |-> "naive", t |-> v.text[1] * 24 + v.text[3]]
      [] v.kind = "str" /\ Len(v.text) = 4 /\ v.text[1] \in 0..9 /\ v.text[3] \in 0..23
                        /\ v.text[4] = 43
            -> [res |-> "aware", t |-> v.text[1] * 24 + v.text[3]]
      [] OTHER -> [res |-> "ValueError", t |-> 0]

(***************************************************************************)
(* merge_news(old_news, new_news)                                          *)
(***************************************************************************)
Urls(s) == {s[i].url : i \in 1..Len(s)}

RECURSIVE MergeLoop(_, _, _, _)
\* the loop over new_news: existing_map is built once from old_news and never updated
MergeLoop(existing_map, cands, merged, cnt) ==
    IF cands = <<>> THEN [merged |-> merged, count_new |-> cnt]
    ELSE IF Head(cands).url \notin existing_map
         THEN MergeLoop(existing_map, Tail(cands), <<Head(cands)>> \o merged, cnt + 1)
         ELSE MergeLoop(existing_map, Tail(cands), merged, cnt)

RECURSIVE MergeLoopOverwrite(_, _, _, _)
\* a merge that lets a candidate replace the stored entry of the same URL
MergeLoopOverwrite(existing_map, cands, merged, cnt) ==
    IF cands = <<>> THEN [merged |-> merged, count_new |-> cnt]
    ELSE IF Head(cands).url \notin existing_map
         THEN MergeLoopOverwrite(existing_map, Tail(cands), <<Head(cands)>> \o merged, cnt + 1)
         ELSE MergeLoopOverwrite(existing_map, Tail(cands),
                  [i \in 1..Len(merged) |->
                      IF merged[i].url = Head(cands).url THEN Head(cands) ELSE merged[i]],
                  cnt)

merge_news_overwriting(old, new) == MergeLoopOverwrite(Urls(old), new, old, 0)

\* a merge that adds every candidate, whether or not the corpus holds its URL
merge_news_appending(old, new) == MergeLoop({}, new, old, 0)

merge_news(old, new) == MergeLoop(Urls(old), new, old, 0)

(***************************************************************************)
(* cleanup_and_sort_news(news_items, hours)                                *)
(***************************************************************************)
\* what the loop body does with one item: "keep", "drop" or "raise"
Examine(item, cutoff) ==
    LET p == fromisoformat(item.scraped_at) IN
    CASE p.res = "naive" -> IF p.t > cutoff THEN "keep" ELSE "drop"
      [] p.res = "ValueError" -> "keep"
      [] OTHER -> "raise"

\* the sort key x.get('scraped_at', ''); only strings reach the sort
SortKey(item) == IF item.scraped_at.kind = "str" THEN item.scraped_at.text ELSE <<>>

RECURSIVE InsertDesc(_, _)
\* x goes behind every element whose key is not smaller than its own
InsertDesc(s, x) ==
    IF s = <<>> THEN <<x>>
    ELSE IF StrLess(SortKey(Head(s)), SortKey(x))
         THEN <<x>> \o s
         ELSE <<Head(s)>> \o InsertDesc(Tail(s), x)

RECURSIVE SortDescFrom(_, _)
SortDescFrom(done, rest) ==
    IF rest = <<>> THEN done ELSE SortDescFrom(InsertDesc(done, Head(rest)), Tail(rest))

\* list.sort(key=..., reverse=True): descending by key, equal keys keep their order
SortDesc(s) == SortDescFrom(<<>>, s)

cleanup_and_sort_news(news_items, clock, hours) ==
    LET cutoff == Hours(clock) - hours
        raised == \E i \in 1..Len(news_items) : Examine(news_items[i], cutoff) = "raise"
        valid_items == SelectSeq(news_items, LAMBDA it : Examine(it, cutoff) = "keep")
    IN  IF raised THEN [raised |-> TRUE, items |-> <<>>]
        ELSE [raised |-> FALSE, items |-> SortDesc(valid_items)]

(***************************************************************************)
(* Article records and the inputs the specifications draw from.            *)
(***************************************************************************)
URLS == 1..NUrls

Article(u, ti, sa, us) == [url |-> u, title |-> ti, scraped_at |-> sa, user_score |-> us]

\* clock readings <<date, hour>> of stored articles, around the cutoff of a run at <<4, _>>
StoredClocks == {<<1, 0>>, <<1, 1>>, <<1, 2>>, <<4, 0>>, <<4, 1>>}

\* what a hand-edited or foreign corpus file can hold under 'scraped_at'
Stamps ==
    {Str(<<c[1], sep, c[2]>>) : c \in StoredClocks, sep \in {32, 84}}
        \cup {Str(<<4, 84, 0, 43>>), Str(<<110, 111>>), NoneValue, Missing}

NoDup(s) == \A i, j \in 1..Len(s) : s[i].url = s[j].url => i = j

\* a candidate as the scrapers build it: stamped with the clock, not yet rated
Candidate(u, ti) == Article(u, ti, isoformat(now), None)

Candidates(ti) == {Candidate(u, ti) : u \in URLS}

(***************************************************************************)
(* Actions on the corpus.                                                  *)
(***************************************************************************)
\* what _scrape_portal can return: seen_links keeps the URLs of one portal distinct
PortalItems(ti) == UNION {{s \in [1..k -> Candidates(ti)] : NoDup(s)} : k \in 0..MaxPerPortal}

RECURSIVE scrape_all(_)
\* PortalManager.scrape_all: the lists of the enabled portals, one after the other
scrape_all(extracted) ==
    IF extracted = <<>> THEN <<>> ELSE Head(extracted) \o scrape_all(Tail(extracted))

\* one merge_news call on the corpus with the batch scrape_all gathered from two portals
Merge ==
    \E a \in PortalItems("t1"), b \in PortalItems("t2") : LET batch == scrape_all(<<a, b>>) IN
        /\ op # "cleanup_raised"
        /\ Len(corpus) + Len(batch) <= MaxCorpus
        /\ LET r == merge_news(corpus, batch) IN
              /\ corpus' = r.merged
              /\ count_new' = r.count_new
        /\ old_news' = corpus
        /\ new_news' = batch
        /\ op' = "merge"
        /\ now' = now
        /\ UNCHANGED <<publisherVars, modelVars>>

\* one cleanup_and_sort_news call on the corpus, with the default horizon
Cleanup ==
    /\ op # "cleanup_raised"
    /\ LET r == cleanup_and_sort_news(corpus, now, HOURS) IN
          /\ corpus' = IF r.raised THEN corpus ELSE r.items
          /\ op' = IF r.raised THEN "cleanup_raised" ELSE "cleanup"
    /\ old_news' = corpus
    /\ new_news' = <<>>
    /\ count_new' = 0
    /\ now' = now
    /\ UNCHANGED <<publisherVars, modelVars>>

\* the clock advances between calls
Tick ==
    /\ op # "cleanup_raised"
    /\ now = <<4, 0>>
    /\ now' = <<4, 1>>
    /\ op' = "tick"
    /\ UNCHANGED <<corpus, old_news, new_news, count_new>>
    /\ UNCHANGED <<publisherVars, modelVars>>

(***************************************************************************)
(* SpecCorpus: a run of merges and cleanups from a stored corpus with      *)
(* pairwise distinct URLs whose entries the scrapers wrote.                *)
(***************************************************************************)
StoredArticles ==
    {Article(u, "t0", isoformat(c), us) : u \in URLS, c \in {<<1, 0>>, <<4, 0>>},
                                          us \in {None, "8"}}

InitCorpus ==
    /\ \E k \in 0..MaxInit : \E s \in [1..k -> StoredArticles] :
          NoDup(s) /\ corpus = s
    /\ op = "load"
    /\ old_news = <<>>
    /\ new_news = <<>>
    /\ count_new = 0
    /\ now = <<4, 0>>
    /\ PublisherIdle
    /\ ModelIdle

NextCorpus == Merge \/ Cleanup \/ Tick

SpecCorpus == InitCorpus /\ [][NextCorpus]_vars

(***************************************************************************)
(* SpecRetention: cleanup_and_sort_news on every list of up to MaxLen      *)
(* articles, article i having URL i, with any stored 'scraped_at' value.   *)
(***************************************************************************)
InitRetention ==
    /\ \E k \in 0..MaxLen : \E f \in [1..k -> Stamps] :
          corpus = [i \in 1..k |-> Article(i, "t0", f[i], None)]
    /\ op = "load"
    /\ old_news = <<>>
    /\ new_news = <<>>
    /\ count_new = 0
    /\ now = <<4, 1>>
    /\ PublisherIdle
    /\ ModelIdle

NextRetention == Cleanup

SpecRetention == InitRetention /\ [][NextRetention]_vars

(***************************************************************************)
(* TelegraphPublisher: the token file, the constructor, publish.           *)
(***************************************************************************)
\* tokens are opaque: the i-th token of a stored file, the token of the n-th account
StoredToken(i) == <<"stored", i>>
CreatedToken(n) == <<"created", n>>

\* what data/telegraph_token.json can hold when the constructor runs
\*   "absent"   no such file          "corrupt"  not JSON (empty, cut short)
\*   "list"     a JSON list of tokens "legacy"   {"access_token": ...}
\*   "other"    any other JSON value
FileList(toks) == [kind |-> "list", tokens |-> toks]

StoredFiles ==
    {[kind |-> k, tokens |-> <<>>] : k \in {"absent", "corrupt", "other"}}
        \cup {[kind |-> "legacy", tokens |-> <<StoredToken(1)>>]}
        \cup {FileList([i \in 1..n |-> StoredToken(i)]) : n \in 0..MaxStored}

\* lines 119-130: the tokens read from the file
LoadTokens(file) ==
    CASE file.kind = "list" -> file.tokens
      [] file.kind = "legacy" -> <<file.tokens[1]>>
      [] OTHER -> <<>>

\* the loop condition of line 136 with five tokens short of one
NeedsTokenBelowFour(toks) == Len(toks) < N_MIN - 1

\* lines 133, 136: the constructor provisions while it holds fewer than five tokens
NeedsToken(toks) == Len(toks) < N_MIN

\* a client built once and kept through later rotations
StaleClient(toks, idx, client) ==
    IF client = NoClient /\ toks # <<>> THEN toks[idx + 1] ELSE client

\* _update_client: a client for the current token, when there is one
_update_client(toks, idx, client) == IF toks # <<>> THEN toks[idx + 1] ELSE client

\* a rotation that leaves the cursor where it is
StuckIndex(idx, n) == idx

\* _rotate_token, line 154
NextIndex(idx, n) == (idx + 1) % n

\* a handler that lets a failure other than flood control escape
OnFailureReraising(err) == IF err = "flood" THEN "rotate" ELSE "raise"

\* lines 172-180: "flood" in the error text rotates and retries, anything else aborts
OnFailure(err) == IF err = "flood" THEN "rotate" ELSE "abort"

\* __init__, lines 109-111, once _load_or_create_accounts has returned
FinishInit ==
    /\ current_token_index' = 0
    /\ telegraph' = _update_client(tokens', 0, NoClient)
    /\ pc' = "ready"

callVars == <<attempts, max_retries, used, start, terminal, ret, items>>

restOfPublisher == <<corpusVars, modelVars>>

\* _load_or_create_accounts, lines 119-133 (and line 149 when five tokens are stored)
Load ==
    /\ pc = "new"
    /\ tokens' = LoadTokens(tokenFile)
    /\ loaded' = tokens'
    /\ IF NeedsToken(tokens')
       THEN pc' = "provision" /\ UNCHANGED <<current_token_index, telegraph>>
       ELSE FinishInit
    /\ UNCHANGED <<tokenFile, createFailed, callVars, restOfPublisher>>

\* lines 136-140: create_account succeeds
CreateAccountOk ==
    /\ pc = "provision"
    /\ NeedsToken(tokens)
    /\ tokens' = Append(tokens, CreatedToken(Len(tokens) + 1))
    /\ pc' = IF NeedsToken(tokens') THEN "provision" ELSE "save_open"
    /\ UNCHANGED <<tokenFile, loaded, createFailed, current_token_index, telegraph,
                   callVars, restOfPublisher>>

\* lines 141-143: create_account fails, the loop is left
CreateAccountFail ==
    /\ pc = "provision"
    /\ NeedsToken(tokens)
    /\ createFailed' = TRUE
    /\ pc' = "save_open"
    /\ UNCHANGED <<tokenFile, tokens, loaded, current_token_index, telegraph,
                   callVars, restOfPublisher>>

\* line 146: open(..., 'w') truncates the file, or fails and leaves it
SaveOpen ==
    /\ pc = "save_open"
    /\ \/ tokenFile' = [kind |-> "corrupt", tokens |-> <<>>] /\ pc' = "save_dump"
       \/ tokenFile' = tokenFile /\ pc' = "ctor_raised"
    /\ UNCHANGED <<tokens, loaded, createFailed, current_token_index, telegraph,
                   callVars, restOfPublisher>>

\* line 147: json.dump writes the list, or fails part-way; then lines 149-150, 109-111
SaveDump ==
    /\ pc = "save_dump"
    /\ \/ /\ tokenFile' = FileList(tokens)
          /\ tokens' = tokens
          /\ FinishInit
       \/ /\ tokenFile' = tokenFile
          /\ pc' = "ctor_raised"
          /\ UNCHANGED <<tokens, current_token_index, telegraph>>
    /\ UNCHANGED <<loaded, createFailed, callVars, restOfPublisher>>

\* publish is called for an article: lines 159-162
PublishBegin ==
    /\ pc = "ready"
    /\ Len(items) < MaxCalls
    /\ start' = current_token_index
    /\ attempts' = 0
    /\ used' = <<>>
    /\ IF telegraph = NoClient
       THEN /\ ret' = None
            /\ terminal' = "Exhausted"     \* no credential to try: line 159
            /\ pc' = "returned"
            /\ max_retries' = max_retries
       ELSE /\ max_retries' = Len(tokens)
            /\ IF 0 < max_retries'          \* the loop test of line 164
               THEN pc' = "try" /\ UNCHANGED <<ret, terminal>>
               ELSE ret' = None /\ terminal' = "Exhausted" /\ pc' = "returned"
    /\ UNCHANGED <<tokenFile, tokens, loaded, createFailed, current_token_index, telegraph,
                   items, restOfPublisher>>

\* lines 166-171: create_page returns the page
AttemptSuccess ==
    /\ pc = "try"
    /\ used' = Append(used, telegraph)
    /\ ret' = "url"
    /\ terminal' = "Done"
    /\ pc' = "returned"
    /\ UNCHANGED <<tokenFile, tokens, loaded, createFailed, current_token_index, telegraph,
                   attempts, max_retries, start, items, restOfPublisher>>

\* lines 172-183: create_page raises
AttemptFailure ==
    \E err \in {"flood", "other"} :
        /\ pc = "try"
        /\ used' = Append(used, telegraph)
        /\ CASE OnFailure(err) = "rotate" ->
                   /\ current_token_index' = NextIndex(current_token_index, Len(tokens))
                   /\ telegraph' = _update_client(tokens, current_token_index', telegraph)
                   /\ attempts' = attempts + 1
                   /\ IF attempts' < max_retries
                      THEN pc' = "try" /\ UNCHANGED <<ret, terminal>>
                      ELSE ret' = None /\ terminal' = "Exhausted" /\ pc' = "returned"
             [] OnFailure(err) = "abort" ->
                   /\ ret' = None
                   /\ terminal' = "Aborted"
                   /\ pc' = "returned"
                   /\ UNCHANGED <<current_token_index, telegraph, attempts>>
             [] OTHER ->
                   /\ pc' = "Raised"
                   /\ UNCHANGED <<current_token_index, telegraph, attempts, ret, terminal>>
        /\ UNCHANGED <<tokenFile, tokens, loaded, createFailed, max_retries, start, items,
                       restOfPublisher>>

\* _scrape_portal, lines 339-355: the article is kept with whatever publish returned
KeepArticle ==
    /\ pc = "returned"
    /\ items' = Append(items, ret)
    /\ pc' = "ready"
    /\ UNCHANGED <<tokenFile, tokens, loaded, createFailed, current_token_index, telegraph,
                   attempts, max_retries, used, start, terminal, ret, restOfPublisher>>

Attempt == AttemptSuccess \/ AttemptFailure

InitPublisher ==
    /\ tokenFile \in StoredFiles
    /\ tokens = <<>>
    /\ loaded = <<>>
    /\ createFailed = FALSE
    /\ current_token_index = 0
    /\ telegraph = NoClient
    /\ pc = "new"
    /\ attempts = 0
    /\ max_retries = 0
    /\ used = <<>>
    /\ start = 0
    /\ terminal = "-"
    /\ ret = None
    /\ items = <<>>
    /\ CorpusIdle
    /\ ModelIdle

NextPublisher ==
    \/ Load
    \/ CreateAccountOk
    \/ CreateAccountFail
    \/ SaveOpen
    \/ SaveDump
    \/ PublishBegin
    \/ AttemptSuccess
    \/ AttemptFailure
    \/ KeepArticle

\* every create_page call returns or raises (the request is time-bounded), and the
\* extractor goes on once publish has returned
SpecPublisher ==
    InitPublisher /\ [][NextPublisher]_vars /\ WF_vars(Attempt) /\ WF_vars(KeepArticle)

(***************************************************************************)
(* NewsML: load, train, predict.                                           *)
(***************************************************************************)
\* Python's < on floats: every comparison with NaN is false
FloatLess(a, b) == ~a.nan /\ ~b.nan /\ a.v < b.v

\* min(a, b) and max(a, b) of Python: the first argument stays unless the second beats it
PyMin(a, b) == IF FloatLess(b, a) THEN b ELSE a
PyMax(a, b) == IF FloatLess(a, b) THEN b ELSE a

\* line 236: max(1.0, min(10.0, float(prediction)))
Clamp(x) == PyMax(Num(SCORE_MIN), PyMin(Num(SCORE_MAX), x))

\* what self.pipeline.predict([text])[0] can do: raise, or return a float
RawOutcomes ==
    {[kind |-> "error", x |-> Num(0)], [kind |-> "value", x |-> NaN]}
        \cup {[kind |-> "value", x |-> Num(v)] :
                 v \in (SCORE_MIN - RawSpread)..(SCORE_MAX + RawSpread)}

\* NewsML.predict, lines 229-239: article['title'] is read before the try block
predict(trained, art, out) ==
    IF ~trained THEN [raised |-> FALSE, x |-> Num(NEUTRAL)]
    ELSE IF ~art.has_title THEN [raised |-> TRUE, x |-> Num(0)]
    ELSE IF out.kind = "error" THEN [raised |-> FALSE, x |-> Num(NEUTRAL)]
    ELSE [raised |-> FALSE, x |-> Clamp(out.x)]

\* NewsML.__init__ and load, lines 186-201
LoadModel ==
    /\ mpc = "new"
    /\ is_trained' = (modelFile = "valid")
    /\ mpc' = "ready"
    /\ UNCHANGED <<modelFile, lastCall, article, raw, result, corpusVars, publisherVars>>

\* NewsML.train, lines 207-227, and save, lines 203-205.  An article is "rated" (it has
\* a user_score and a title), "rated_untitled" or "unrated".
Train ==
    \E k \in 0..MaxTrain : \E articles \in [1..k -> {"rated", "rated_untitled", "unrated"}] :
    \E fit \in {"ok", "raises"}, dump \in {"ok", "open fails", "write fails"} :
        LET training_data == SelectSeq(articles, LAMBDA a : a # "unrated")
            untitled == \E i \in 1..Len(training_data) : training_data[i] = "rated_untitled"
            outcome ==
                CASE training_data = <<>> -> "return"
                  [] untitled -> "raise"
                  [] Len(training_data) < 2 -> "return"
                  [] fit = "raises" -> "raise"
                  [] dump = "ok" -> "saved"
                  [] dump = "open fails" -> "fitted, raise"
                  [] OTHER -> "fitted, file cut short, raise"
        IN  /\ mpc = "ready"
            /\ lastCall' = "train"
            /\ is_trained' = IF outcome \in {"return", "raise"} THEN is_trained ELSE TRUE
            /\ modelFile' = CASE outcome = "saved" -> "valid"
                              [] outcome = "fitted, file cut short, raise" -> "corrupt"
                              [] OTHER -> modelFile
            /\ mpc' = IF outcome \in {"return", "saved"} THEN "ready" ELSE "raised"
            /\ UNCHANGED <<article, raw, result, corpusVars, publisherVars>>

\* one NewsML.predict call; the article may lack 'title' or 'source' (the latter is
\* read with article.get('source', ''))
Predict ==
    \E art \in [has_title : BOOLEAN, has_source : BOOLEAN], out \in RawOutcomes :
        /\ mpc = "ready"
        /\ lastCall' = "predict"
        /\ article' = art
        /\ raw' = IF is_trained /\ art.has_title THEN out ELSE NoRaw
        /\ result' = predict(is_trained, art, out)
        /\ mpc' = IF result'.raised THEN "raised" ELSE "ready"
        /\ UNCHANGED <<modelFile, is_trained, corpusVars, publisherVars>>

InitModel ==
    /\ modelFile \in {"absent", "valid", "corrupt"}
    /\ is_trained = FALSE
    /\ mpc = "new"
    /\ lastCall = "none"
    /\ article = NoArticle
    /\ raw = NoRaw
    /\ result = NoResult
    /\ CorpusIdle
    /\ PublisherIdle

NextModel == LoadModel \/ Train \/ Predict

SpecModel == InitModel /\ [][NextModel]_vars

(***************************************************************************)
(* Properties of the corpus operations.                                    *)
(***************************************************************************)
Range(s) == {s[i] : i \in 1..Len(s)}

\* the bag of the entries of a list
SeqBag(s) == [x \in Range(s) |-> Cardinality({i \in 1..Len(s) : s[i] = x})]

\* C1: the pipeline never loses or alters human feedback.  After merge_news every
\* entry of the existing corpus is in the result, as often as before and equal in
\* every field; after cleanup_and_sort_news every retained entry is an entry of the
\* input, equal in every field; and after either, an entry whose URL the corpus held
\* before is one of the entries held before (user_score included), also when a
\* candidate carried that URL with other field values.
C1_FeedbackPreserved ==
    /\ op = "merge" => SeqBag(old_news) \sqsubseteq SeqBag(corpus)
    /\ op = "cleanup" => SeqBag(corpus) \sqsubseteq SeqBag(old_news)
    /\ op \in {"merge", "cleanup"} =>
          \A i \in 1..Len(corpus) :
              corpus[i].url \in Urls(old_news) => corpus[i] \in Range(old_news)

\* C1 witness: a merge that added an article and whose batch also carried the URL of a
\* rated entry, with another title and no rating.
C1_Witness ==
    /\ op = "merge"
    /\ \E i \in 1..Len(new_news), j \in 1..Len(old_news) :
          /\ new_news[i].url = old_news[j].url
          /\ old_news[j].user_score = "8"
          /\ new_news[i].title # old_news[j].title
          /\ new_news[i].user_score # old_news[j].user_score
    /\ Len(corpus) > Len(old_news)

\* C2: the count merge_news returns is the number of candidate URLs absent from the
\* existing corpus, |{u in B.urls : u not in A.urls}|.
C2_AddedCount ==
    op = "merge" => count_new = Cardinality(Urls(new_news) \ Urls(old_news))

\* C3: URL uniqueness is an invariant of the corpus: from a corpus with pairwise
\* distinct URLs, no sequence of merge_news and cleanup_and_sort_news calls yields a
\* corpus with two entries of the same URL.
C3_UrlUnique == NoDup(corpus)

\* the timestamp of an entry and whether it has one
Parsed(item) == fromisoformat(item.scraped_at)
Parsable(item) == Parsed(item).res \in {"naive", "aware"}

\* C6: for every entry with a parsable scraped_at, the entry is in the output of
\* cleanup_and_sort_news iff now - scraped_at <= horizon; an entry exactly as old as
\* the horizon is retained.
C6_RetentionMembership ==
    op = "cleanup" =>
        \A i \in 1..Len(old_news) :
            Parsable(old_news[i]) =>
                (old_news[i] \in Range(corpus)
                    <=> Hours(now) - Parsed(old_news[i]).t <= HOURS)

\* position of an entry in the input of the last call (URLs are distinct there)
InputIndex(e) == CHOOSE i \in 1..Len(old_news) : old_news[i] = e

\* C7: the output of cleanup_and_sort_news is ordered newest first (non-increasing by
\* the scraped_at timestamp), and entries with equal scraped_at keep their input order.
C7_SortedNewestFirst ==
    op = "cleanup" =>
        \A j, k \in 1..Len(corpus) :
            j < k =>
                /\ (Parsable(corpus[j]) /\ Parsable(corpus[k]))
                       => Parsed(corpus[j]).t >= Parsed(corpus[k]).t
                /\ corpus[j].scraped_at = corpus[k].scraped_at
                       => InputIndex(corpus[j]) < InputIndex(corpus[k])

\* C8: every entry whose scraped_at cannot be parsed (malformed string, null, missing)
\* is in the output of cleanup_and_sort_news, and the call returns instead of failing.
C8_UnparsableRetained ==
    op \in {"cleanup", "cleanup_raised"} =>
        /\ op = "cleanup"
        /\ \A i \in 1..Len(old_news) :
              ~Parsable(old_news[i]) => old_news[i] \in Range(corpus)

(***************************************************************************)
(* Properties of the publisher.                                            *)
(***************************************************************************)
\* the constructor has returned a publisher
IsConstructed == pc \in {"ready", "try", "returned", "Raised"}

\* C4: credential rotation bound of publish.  With N tokens and M rate-limit
\* responses so far, the call goes on to attempt M+1 while M < N; a call that returns
\* the mirror URL after M rate-limit responses made exactly M+1 attempts, with M < N;
\* a call that ends exhausted made exactly N attempts, all rate-limited, and returns
\* no URL; and no token is used for more than one attempt of the call.
C4_RotationBound ==
    /\ \A i, j \in 1..Len(used) : used[i] = used[j] => i = j
    /\ pc = "try" => attempts < Len(tokens) /\ Len(used) = attempts
    /\ (pc = "returned" /\ terminal = "Done") =>
          attempts < Len(tokens) /\ Len(used) = attempts + 1 /\ ret = "url"
    /\ (pc = "returned" /\ terminal = "Exhausted") =>
          attempts = Len(tokens) /\ Len(used) = Len(tokens) /\ ret = None

\* C4 witness: a call on a pool of five tokens ends exhausted after five attempts,
\* having started on a cursor an earlier call's rotations had moved.
C4_Witness ==
    /\ pc = "returned"
    /\ terminal = "Exhausted"
    /\ Len(tokens) = N_MIN
    /\ Len(used) = N_MIN
    /\ start = 2
    /\ items = <<"url">>

\* the safety part of C5
C5_Resolves ==
    /\ pc # "Raised"
    /\ pc = "returned" =>
          /\ terminal \in {"Done", "Exhausted", "Aborted"}
          /\ ret = IF terminal = "Done" THEN "url" ELSE None
    /\ (pc = "returned" /\ terminal = "Aborted") =>
          /\ Len(used) = attempts + 1
          /\ telegraph = used[Len(used)]
          /\ current_token_index = (start + attempts) % Len(tokens)
    /\ (pc = "ready" /\ terminal # "-") =>
          /\ Len(items) >= 1
          /\ items[Len(items)] = ret

\* C5: every publish call ends in Done, Exhausted or Aborted with a return value (the
\* mirror URL, or None), never an escaping failure, whatever the pool (an empty one
\* included) and whatever create_page does; a failure that is not flood control ends
\* the call at once, with None, the cursor and client left where the failing attempt
\* found them; and the extractor keeps the article with the value returned.
C5_PublishResolves ==
    /\ []C5_Resolves
    /\ [](pc = "try" => <>(pc = "returned"))
    /\ [](pc = "returned" => <>(pc = "ready"))

\* C5 witness: the second call of a run hit flood control once, rotated, and was then
\* aborted by another failure; its article is kept without a mirror link.
C5_Witness ==
    /\ pc = "ready"
    /\ terminal = "Aborted"
    /\ attempts = 1
    /\ Len(used) = 2
    /\ items = <<"url", None>>

C9_PredictBounds ==
    lastCall = "predict" =>
        /\ ~result.raised
        /\ ~result.x.nan /\ result.x.v >= SCORE_MIN /\ result.x.v <= SCORE_MAX
        /\ ~is_trained => result.x = Num(NEUTRAL)
        /\ (is_trained /\ (~article.has_title \/ raw.kind = "error")) => result.x = Num(NEUTRAL)
        /\ (is_trained /\ article.has_title /\ raw.kind = "value" /\ ~raw.x.nan) =>
              result.x.v = IF raw.x.v < SCORE_MIN THEN SCORE_MIN
                           ELSE IF raw.x.v > SCORE_MAX THEN SCORE_MAX ELSE raw.x.v

(***************************************************************************)
(* Properties of persistence.                                              *)
(***************************************************************************)
\* C11: persistence is crash-safe: a write replaces the stored file atomically, so
\* every step of a write leaves the store holding either the complete previous state
\* or the complete new state, never a cut-short or empty file.
C11_CrashSafe ==
    [][/\ tokenFile' = tokenFile \/ tokenFile' = FileList(tokens')
       /\ modelFile' = modelFile \/ modelFile' = "valid"]_vars

\* C12: merge idempotence.  For every corpus A and batch B (a batch repeating a URL
\* included), merging B again into the corpus the first merge returned adds nothing:
\* merge_news(merge_news(A, B)[0], B) returns count 0 and a corpus equal to its first
\* argument.
C12_MergeIdempotent ==
    op = "merge" =>
        /\ corpus = merge_news(old_news, new_news).merged
        /\ merge_news(corpus, new_news) = [merged |-> corpus, count_new |-> 0]

\* C12 witness: a first merge into a non-empty corpus that added both candidates of a
\* batch repeating one URL.
C12_Witness ==
    /\ op = "merge"
    /\ old_news # <<>>
    /\ Len(new_news) = 2
    /\ new_news[1].url = new_news[2].url
    /\ count_new = 2
    /\ Len(corpus) = Len(old_news) + 2

(***************************************************************************)
(* Properties of the rotation cursor.                                      *)
(***************************************************************************)
\* C13: the rotation cursor across publish calls.  For a publisher with a non-empty
\* pool of N tokens, at every point of every call 0 <= current_token_index < N and
\* the client is the one built from tokens[current_token_index]; a call that has seen
\* k rate-limit responses has the cursor at (start + k) mod N, so a call that succeeds
\* leaves the cursor on the token that succeeded (where the next call starts), a call
\* that ends exhausted leaves it where it started, and an aborted call leaves it on
\* the token of the failing attempt.
C13_RotationCursor ==
    (IsConstructed /\ tokens # <<>>) =>
        /\ current_token_index \in 0..(Len(tokens) - 1)
        /\ telegraph = tokens[current_token_index + 1]
        /\ pc = "ready" /\ terminal = "-" => current_token_index = 0
        /\ pc \in {"try", "returned"} \/ (pc = "ready" /\ terminal # "-") =>
              current_token_index = (start + attempts) % Len(tokens)
        /\ pc = "try" /\ attempts = 0 => current_token_index = start
        /\ pc \in {"returned", "ready"} /\ terminal \in {"Done", "Aborted"} =>
              /\ used # <<>>
              /\ used[Len(used)] = tokens[current_token_index + 1]
        /\ pc \in {"returned", "ready"} /\ terminal = "Exhausted" =>
              /\ attempts = Len(tokens)
              /\ current_token_index = start

\* C13 witness: the second call of a run on five tokens started on the fourth token,
\* where the first call had succeeded, and succeeded on the first token after two
\* rate-limit responses had taken the cursor round the end of the pool.
C13_Witness ==
    /\ pc = "returned"
    /\ terminal = "Done"
    /\ Len(tokens) = N_MIN
    /\ items = <<"url">>
    /\ start = 3
    /\ attempts = 2
    /\ current_token_index = 0
    /\ telegraph = tokens[1]

====
